---- MODULE Spec2Model ----
(***************************************************************************)
(* Model of internal/pokecache: a map[string]cacheEntry guarded by a       *)
(* sync.RWMutex, written by Add, read by Get and purged by the reapLoop    *)
(* goroutine that NewCache starts.                                         *)
(*                                                                         *)
(* Time is a discrete clock `now`.  The ticker of reapLoop fires every     *)
(* `interval` units; the clock does not move while a tick is due or a      *)
(* sweep pass is running (a pass takes no time at the clock's resolution). *)
(***************************************************************************)
EXTENDS Integers, FiniteSets, Sequences, TLC

\* ---- bounds of the model ----
NCallers == 2
NKeys == 2
NValues == 2
MaxInterval == 2
MaxTime == 5

\* ---- program constants ----
\* the nil slice Get returns for an absent key
Nil == 0
\* the goroutine NewCache starts; the callers are 1..NCallers
Sweeper == 0

Callers == 1..NCallers
Keys == 1..NKeys
Values == 1..NValues
Intervals == 1..MaxInterval

VARIABLES
    cache,      \* p.cache: the entries, a function from the present keys
    mu,         \* p.mu: [w: holder of the writer mutex, held: write lock granted, readers]
    now,        \* the clock read by time.Now and time.Since
    interval,   \* the argument of NewCache / reapLoop
    pc,         \* position of each caller
    key,        \* argument key of the caller's call in progress
    value,      \* argument value of the caller's Add in progress
    ret,        \* result of the caller's Get: <<val, ok>>
    spc,        \* position of the reapLoop goroutine
    nextTick,   \* time of the ticker's next tick
    todo,       \* keys the range loop of the sweep has not visited yet
    added,      \* history: the keys Add has ever stored
    just,       \* history: <<c, k, v>> while caller c's Add(k, v) is the latest event
    mine,       \* history: per caller, what became of its latest Add
    pre,        \* history: the map as the running sweep pass found it
    fetch       \* per caller, its call of fetchData: position, url and result

vars == <<cache, mu, now, interval, pc, key, value, ret, spc, nextTick, todo,
          added, just, mine, pre, fetch>>

\* ---- the map ----
\* an entry written with the zero time instead of time.Now()
cacheEntryZeroTime(t, v) == [createdAt |-> 0, val |-> v]

\* cacheEntry{createdAt: time.Now(), val: value}
cacheEntry(t, v) == [createdAt |-> t, val |-> v]

\* a write that keeps the entry a key already has
MapPutIfAbsent(m, k, e) ==
    [x \in (DOMAIN m) \cup {k} |-> IF x \in DOMAIN m THEN m[x] ELSE e]

\* a write that drops the entries of the other keys
MapPutAlone(m, k, e) == [x \in {k} |-> e]

\* a write that replaces the value of a key and keeps the createdAt it had
MapPutKeepTime(m, k, e) ==
    [x \in (DOMAIN m) \cup {k} |->
        IF x # k THEN m[x]
        ELSE IF k \in DOMAIN m THEN [createdAt |-> m[k].createdAt, val |-> e.val]
        ELSE e]

\* p.cache[key] = cacheEntry{...}
MapPut(m, k, e) == [x \in (DOMAIN m) \cup {k} |-> IF x = k THEN e ELSE m[x]]

\* delete(p.cache, key)
MapDelete(m, k) == [x \in (DOMAIN m) \ {k} |-> m[x]]

\* make(map[string]cacheEntry)
EmptyMap == [x \in {} |-> cacheEntry(0, Nil)]

\* a lookup that reports every key as found
LookupUnchecked(m, k) == IF k \in DOMAIN m THEN <<m[k].val, TRUE>> ELSE <<Nil, TRUE>>

\* a lookup that falls back on the entry of another key
LookupAny(m, k) ==
    IF k \in DOMAIN m THEN <<m[k].val, TRUE>>
    ELSE IF DOMAIN m # {} THEN <<m[CHOOSE x \in DOMAIN m : TRUE].val, TRUE>>
    ELSE <<Nil, FALSE>>

\* a lookup that reports an entry older than the interval as absent
LookupFresh(m, k) ==
    IF k \in DOMAIN m /\ now - m[k].createdAt <= interval THEN <<m[k].val, TRUE>>
    ELSE <<Nil, FALSE>>

\* val, ok := p.cache[key]; if !ok { return nil, false }; return val.val, true
Lookup(m, k) == IF k \in DOMAIN m THEN <<m[k].val, TRUE>> ELSE <<Nil, FALSE>>

\* time.Since(entry.createdAt)
Since(t) == now - t

\* an expiry test that also removes an entry whose age equals the interval
ExpiredAtInterval(e) == Since(e.createdAt) >= interval

\* an expiry test against twice the interval
ExpiredTwice(e) == Since(e.createdAt) > 2 * interval

\* time.Since(entry.createdAt) > interval
Expired(e) == Since(e.createdAt) > interval

\* ---- sync.RWMutex ----
\* the zero value of p.mu
MutexFree == [w |-> {}, held |-> FALSE, readers |-> {}]

\* Lock, first half: take the writer mutex; from here on new readers wait
CanLock == mu.w = {}

\* a Lock that does not wait for the readers inside
CanEnterAlways == TRUE

\* Lock, second half: the readers that were inside have left
CanEnter == mu.readers = {}

\* an RLock that also waits for the readers inside
CanRLockExclusive == mu.w = {} /\ mu.readers = {}

\* an RLock that waits only for a writer that holds the lock
CanRLockNoPreference == ~mu.held

\* RLock: no writer holds or waits for the lock
CanRLock == mu.w = {}

\* an unlock that was left out
UnlockForgotten == mu

\* Unlock
Unlock == [mu EXCEPT !.w = {}, !.held = FALSE]

\* RUnlock
RUnlock(c) == [mu EXCEPT !.readers = @ \ {c}]

\* ---- fetchData ----
\* the url that strings.TrimSpace leaves empty
Blank == 0

\* the urls a caller passes to fetchData; the others are the cache keys
Urls == Keys \cup {Blank}

\* a caller that is not inside fetchData: its locals decodedData, ok and err,
\* the number of http.Get calls it has made, and, for a call that repeats the
\* caller's previous url, the bytes and the error the previous call returned
\* and what had become of the entry it stored
FetchIdle == [pc |-> "idle", url |-> Blank, data |-> Nil, ok |-> FALSE, err |-> "nil",
              reqs |-> 0, first |-> Nil, firstErr |-> "none", kept |-> "none"]

\* ---- history ----
\* the caller's latest call was not an Add; else the key, the value and the
\* time of its write, what became of the entry, and whether a sweep removed it
NoMine == [k |-> 0, v |-> Nil, at |-> 0, st |-> "none", gone |-> FALSE]

\* the types of cacheEntry and Cache
TypeOK ==
    /\ DOMAIN cache \subseteq Keys
    /\ \A k \in DOMAIN cache : cache[k].createdAt \in 0..MaxTime /\ cache[k].val \in Values
    /\ mu.w \subseteq Callers \cup {Sweeper}
    /\ mu.held \in BOOLEAN
    /\ mu.readers \subseteq Callers
    /\ now \in 0..MaxTime
    /\ interval \in Intervals
    /\ pc \in [Callers -> {"idle", "add_lock", "add_enter", "add_write", "add_unlock",
                           "get_rlock", "get_read", "get_runlock"}]
    /\ key \in [Callers -> Keys \cup {0}]
    /\ value \in [Callers -> Values \cup {Nil}]
    /\ spc \in {"start", "wait", "lock", "enter", "scan"}
    /\ todo \subseteq Keys
    /\ added \subseteq Keys

\* ---- NewCache ----
Init ==
    /\ cache = EmptyMap
    /\ mu = MutexFree
    /\ now = 0
    /\ interval \in Intervals
    /\ pc = [c \in Callers |-> "idle"]
    /\ key = [c \in Callers |-> 0]
    /\ value = [c \in Callers |-> Nil]
    /\ ret = [c \in Callers |-> <<Nil, FALSE>>]
    /\ spc = "start"
    /\ nextTick = 0
    /\ todo = {}
    /\ added = {}
    /\ just = <<>>
    /\ mine = [c \in Callers |-> NoMine]
    /\ pre = EmptyMap
    /\ fetch = [c \in Callers |-> FetchIdle]

\* history kept by a step of caller c that is neither a write nor a read
OwnStep(c) == just' = (IF just # <<>> /\ just[1] = c THEN just ELSE <<>>)

\* ---- Add ----
\* a caller calls p.Add(key, value)
CallAdd(c, k, v) ==
    /\ pc[c] = "idle"
    /\ pc' = [pc EXCEPT ![c] = "add_lock"]
    /\ key' = [key EXCEPT ![c] = k]
    /\ value' = [value EXCEPT ![c] = v]
    /\ mine' = [mine EXCEPT ![c] = NoMine]
    /\ just' = <<>>
    /\ UNCHANGED <<cache, mu, now, interval, ret, spc, nextTick, todo, added, pre>>

\* p.mu.Lock(): the writer mutex is taken, later readers wait
AddLock(c) ==
    /\ pc[c] = "add_lock"
    /\ CanLock
    /\ mu' = [mu EXCEPT !.w = {c}]
    /\ pc' = [pc EXCEPT ![c] = "add_enter"]
    /\ just' = <<>>
    /\ UNCHANGED <<cache, now, interval, key, value, ret, spc, nextTick, todo, added, mine, pre>>

\* p.mu.Lock() returns: the readers inside have left
AddEnter(c) ==
    /\ pc[c] = "add_enter"
    /\ CanEnter
    /\ mu' = [mu EXCEPT !.held = TRUE]
    /\ pc' = [pc EXCEPT ![c] = "add_write"]
    /\ just' = <<>>
    /\ UNCHANGED <<cache, now, interval, key, value, ret, spc, nextTick, todo, added, mine, pre>>

\* p.cache[key] = cacheEntry{createdAt: time.Now(), val: value}
AddWrite(c) ==
    /\ pc[c] = "add_write"
    /\ cache' = MapPut(cache, key[c], cacheEntry(now, value[c]))
    /\ pc' = [pc EXCEPT ![c] = "add_unlock"]
    /\ added' = added \cup {key[c]}
    /\ just' = <<c, key[c], value[c]>>
    /\ mine' = [d \in Callers |->
                  IF d = c THEN [k |-> key[c], v |-> value[c], at |-> now, st |-> "own",
                                 gone |-> FALSE]
                  ELSE IF mine[d].k = key[c] /\ mine[d].st # "none"
                       THEN [mine[d] EXCEPT !.st = "other"]
                       ELSE mine[d]]
    /\ UNCHANGED <<mu, now, interval, key, value, ret, spc, nextTick, todo, pre>>

\* deferred p.mu.Unlock(); Add returns to a caller that does not go on to Get the key
AddUnlock(c) ==
    /\ pc[c] = "add_unlock"
    /\ mu' = Unlock
    /\ pc' = [pc EXCEPT ![c] = "idle"]
    /\ key' = [key EXCEPT ![c] = 0]
    /\ value' = [value EXCEPT ![c] = Nil]
    /\ mine' = [mine EXCEPT ![c] = NoMine]
    /\ OwnStep(c)
    /\ UNCHANGED <<cache, now, interval, ret, spc, nextTick, todo, added, pre>>

\* deferred p.mu.Unlock(); Add returns and the caller's next call is Get of the same key
AddUnlockThenGet(c) ==
    /\ pc[c] = "add_unlock"
    /\ mu' = Unlock
    /\ pc' = [pc EXCEPT ![c] = "get_rlock"]
    /\ value' = [value EXCEPT ![c] = Nil]
    /\ OwnStep(c)
    /\ UNCHANGED <<cache, now, interval, key, ret, spc, nextTick, todo, added, mine, pre>>

\* ---- Get ----
\* a caller calls p.Get(key)
CallGet(c, k) ==
    /\ pc[c] = "idle"
    /\ pc' = [pc EXCEPT ![c] = "get_rlock"]
    /\ key' = [key EXCEPT ![c] = k]
    /\ just' = (IF just # <<>> /\ just[1] = c /\ just[2] = k THEN just ELSE <<>>)
    /\ UNCHANGED <<cache, mu, now, interval, value, ret, spc, nextTick, todo, added, mine, pre>>

\* p.mu.RLock()
GetRLock(c) ==
    /\ pc[c] = "get_rlock"
    /\ CanRLock
    /\ mu' = [mu EXCEPT !.readers = @ \cup {c}]
    /\ pc' = [pc EXCEPT ![c] = "get_read"]
    /\ OwnStep(c)
    /\ UNCHANGED <<cache, now, interval, key, value, ret, spc, nextTick, todo, added, mine, pre>>

\* a read that also removes the entry it finds older than the interval
GetReadEvict(c) ==
    /\ pc[c] = "get_read"
    /\ ret' = [ret EXCEPT ![c] = Lookup(cache, key[c])]
    /\ cache' = (IF key[c] \in DOMAIN cache /\ Expired(cache[key[c]])
                 THEN MapDelete(cache, key[c]) ELSE cache)
    /\ pc' = [pc EXCEPT ![c] = "get_runlock"]
    /\ OwnStep(c)
    /\ UNCHANGED <<mu, now, interval, key, value, spc, nextTick, todo, added, mine, pre>>

\* val, ok := p.cache[key] and the choice of the result
GetRead(c) ==
    /\ pc[c] = "get_read"
    /\ ret' = [ret EXCEPT ![c] = Lookup(cache, key[c])]
    /\ pc' = [pc EXCEPT ![c] = "get_runlock"]
    /\ OwnStep(c)
    /\ UNCHANGED <<cache, mu, now, interval, key, value, spc, nextTick, todo, added, mine, pre>>

\* deferred p.mu.RUnlock(); Get returns
GetRUnlock(c) ==
    /\ pc[c] = "get_runlock"
    /\ mu' = RUnlock(c)
    /\ pc' = [pc EXCEPT ![c] = "idle"]
    /\ key' = [key EXCEPT ![c] = 0]
    /\ ret' = [ret EXCEPT ![c] = <<Nil, FALSE>>]
    /\ mine' = [mine EXCEPT ![c] = NoMine]
    /\ just' = <<>>
    /\ UNCHANGED <<cache, now, interval, value, spc, nextTick, todo, added, pre>>

\* ---- reapLoop ----
\* a ticker created with twice the interval
NewTickerDouble ==
    /\ spc = "start"
    /\ interval > 0
    /\ nextTick' = now + 2 * interval
    /\ spc' = "wait"
    /\ just' = <<>>
    /\ UNCHANGED <<cache, mu, now, interval, pc, key, value, ret, todo, added, mine, pre>>

\* ticker := time.NewTicker(interval)
NewTicker ==
    /\ spc = "start"
    /\ interval > 0
    /\ nextTick' = now + interval
    /\ spc' = "wait"
    /\ just' = <<>>
    /\ UNCHANGED <<cache, mu, now, interval, pc, key, value, ret, todo, added, mine, pre>>

\* for range ticker.C: a tick is received
ReapTick ==
    /\ spc = "wait"
    /\ now = nextTick
    /\ nextTick' = nextTick + interval
    /\ spc' = "lock"
    /\ just' = <<>>
    /\ UNCHANGED <<cache, mu, now, interval, pc, key, value, ret, todo, added, mine, pre>>

\* p.mu.Lock(): the writer mutex is taken, later readers wait
ReapLock ==
    /\ spc = "lock"
    /\ CanLock
    /\ mu' = [mu EXCEPT !.w = {Sweeper}]
    /\ spc' = "enter"
    /\ just' = <<>>
    /\ UNCHANGED <<cache, now, interval, pc, key, value, ret, nextTick, todo, added, mine, pre>>

\* p.mu.Lock() returns; for key, entry := range p.cache begins
ReapEnter ==
    /\ spc = "enter"
    /\ CanEnter
    /\ mu' = [mu EXCEPT !.held = TRUE]
    /\ todo' = DOMAIN cache
    /\ pre' = cache
    /\ spc' = "scan"
    /\ just' = <<>>
    /\ UNCHANGED <<cache, now, interval, pc, key, value, ret, nextTick, added, mine>>

\* one iteration of the range loop, in any order of the keys
ReapVisit(k) ==
    /\ spc = "scan"
    /\ k \in todo
    /\ todo' = todo \ {k}
    /\ IF Expired(cache[k])
       THEN /\ cache' = MapDelete(cache, k)
            /\ mine' = [d \in Callers |->
                          IF mine[d].k = k /\ mine[d].st # "none"
                          THEN [mine[d] EXCEPT !.st = "swept", !.gone = TRUE]
                          ELSE mine[d]]
       ELSE UNCHANGED <<cache, mine>>
    /\ just' = <<>>
    /\ UNCHANGED <<mu, now, interval, pc, key, value, ret, spc, nextTick, added, pre>>

\* a sweep that returns from reapLoop after its first pass
ReapUnlockReturn ==
    /\ spc = "scan"
    /\ todo = {}
    /\ mu' = Unlock
    /\ pre' = EmptyMap
    /\ spc' = "returned"
    /\ just' = <<>>
    /\ UNCHANGED <<cache, now, interval, pc, key, value, ret, nextTick, todo, added, mine>>

\* the range loop is over; p.mu.Unlock()
ReapUnlock ==
    /\ spc = "scan"
    /\ todo = {}
    /\ mu' = Unlock
    /\ pre' = EmptyMap
    /\ spc' = "wait"
    /\ just' = <<>>
    /\ UNCHANGED <<cache, now, interval, pc, key, value, ret, nextTick, todo, added, mine>>

\* ---- the clock ----
\* the clock advances by one unit, unless a tick is due or a pass is running
TimePasses ==
    /\ spc = "wait"
    /\ now < nextTick
    /\ now < MaxTime
    /\ now' = now + 1
    /\ just' = <<>>
    /\ UNCHANGED <<cache, mu, interval, pc, key, value, ret, spc, nextTick, todo, added, mine, pre>>

\* every step of the callers, the sweeper and the clock
Next ==
    \/ UNCHANGED fetch /\ \E c \in Callers, k \in Keys, v \in Values : CallAdd(c, k, v)
    \/ UNCHANGED fetch /\ \E c \in Callers : AddLock(c)
    \/ UNCHANGED fetch /\ \E c \in Callers : AddEnter(c)
    \/ UNCHANGED fetch /\ \E c \in Callers : AddWrite(c)
    \/ UNCHANGED fetch /\ \E c \in Callers : AddUnlock(c)
    \/ UNCHANGED fetch /\ \E c \in Callers : AddUnlockThenGet(c)
    \/ UNCHANGED fetch /\ \E c \in Callers, k \in Keys : CallGet(c, k)
    \/ UNCHANGED fetch /\ \E c \in Callers : GetRLock(c)
    \/ UNCHANGED fetch /\ \E c \in Callers : GetRead(c)
    \/ UNCHANGED fetch /\ \E c \in Callers : GetRUnlock(c)
    \/ UNCHANGED fetch /\ NewTicker
    \/ UNCHANGED fetch /\ ReapTick
    \/ UNCHANGED fetch /\ ReapLock
    \/ UNCHANGED fetch /\ ReapEnter
    \/ UNCHANGED fetch /\ \E k \in Keys : ReapVisit(k)
    \/ UNCHANGED fetch /\ ReapUnlock
    \/ UNCHANGED fetch /\ TimePasses

Spec == Init /\ [][Next]_vars

\* ---- who is where ----
\* between Lock and Unlock: Add after p.mu.Lock(), the sweep inside its pass
Writing == {c \in Callers : pc[c] \in {"add_write", "add_unlock"}}
             \cup (IF spc = "scan" THEN {Sweeper} ELSE {})

\* between RLock and RUnlock
Reading == {c \in Callers : pc[c] \in {"get_read", "get_runlock"}}

\* inside Lock, waiting for the readers to leave
Announced == {c \in Callers : pc[c] = "add_enter"}
               \cup (IF spc = "enter" THEN {Sweeper} ELSE {})

\* a Get of caller c has read the map and not yet returned
Returning(c) == pc[c] = "get_runlock"

\* ---- C1 ----
\* C1: when caller c's Add(k, v) is followed by its Get(k) with no step of any
\* other caller, no step of the sweeper and no clock tick in between, the Get
\* returns (v, true).
C1_AddThenGet ==
    \A c \in Callers :
        (Returning(c) /\ just # <<>> /\ just[1] = c)
            => (just[2] = key[c] /\ ret[c] = <<just[3], TRUE>>)

\* a Get that immediately follows the caller's own Add has read the map
C1_Witness ==
    \E c \in Callers : Returning(c) /\ just = <<c, key[c], ret[c][1]>> /\ ret[c][2]

\* ---- C2 ----
\* C2: a key that no Add has ever stored is not in the map, and a Get of it
\* returns (nil, false), whatever was added under other keys and swept.
C2_NeverAdded ==
    /\ \A k \in Keys \ added : k \notin DOMAIN cache
    /\ \A c \in Callers :
          (Returning(c) /\ key[c] \notin added) => ret[c] = <<Nil, FALSE>>

\* a Get of a never-added key returns, after an Add of another key and a tick
C2_Witness ==
    \E c \in Callers :
        /\ Returning(c) /\ key[c] \notin added /\ ret[c] = <<Nil, FALSE>>
        /\ added # {} /\ nextTick > interval

\* ---- C3 ----
\* one step, as last write wins allows it
C3_Step ==
    /\ \A c \in Callers :
          AddWrite(c) =>
             /\ Lookup(cache', key[c]) = <<value[c], TRUE>>
             /\ (Lookup(cache, key[c]) = <<value[c], TRUE>>
                    => Lookup(cache', key[c]) = Lookup(cache, key[c]))
    /\ \A k \in Keys :
          Lookup(cache', k) # Lookup(cache, k) =>
             \/ \E c \in Callers : AddWrite(c) /\ key[c] = k
             \/ ReapVisit(k)
    /\ \A c \in Callers : Returning(c)' => ret'[c] = Lookup(cache', key'[c])

\* C3: last write wins.  The write of Add(k, v) leaves Lookup(k) = (v, true)
\* whatever was stored under k before (so a second Add(k, v) leaves what the
\* first left, and Add(k, v2) replaces v); from then on the result of Lookup(k)
\* changes only in a later Add of k or when the sweep removes k; and a Get
\* that has read returns the Lookup of the map.
C3_LastWriteWins == [][C3_Step]_vars

\* caller c stored v, another caller then stored v2 # v, and c's Get returns v2
C3_Witness ==
    \E c \in Callers :
        /\ Returning(c) /\ mine[c].st = "other"
        /\ ret[c][2] /\ ret[c][1] # mine[c].v

\* ---- C4 ----
\* no entry is older than two intervals, none older than one after a pass
C4_Gone ==
    /\ \A k \in DOMAIN cache : ~(now > cache[k].createdAt + 2 * interval)
    /\ (spc = "scan" /\ todo = {}) => \A k \in DOMAIN cache : ~Expired(cache[k])

\* a Get that reads later than T + 2 * interval finds nothing
C4_Step ==
    \A c \in Callers :
        (GetRead(c) /\ mine[c].st \in {"own", "swept"}
                    /\ now > mine[c].at + 2 * interval)
            => ret'[c] = <<Nil, FALSE>>

C5_Step ==
    /\ \A k \in DOMAIN cache :
          Since(cache[k].createdAt) <= interval => k \in DOMAIN cache'
    /\ \A c \in Callers :
          (GetRead(c) /\ mine[c].st # "none" /\ now <= mine[c].at + interval)
              => ret'[c][2]

\* C5: no step removes an entry whose age is at most the interval, and a Get
\* that reads at a time t <= T + interval, T the time of the caller's own Add
\* of the key, returns found = true.
C5_KeptWhileYoung == [][C5_Step]_vars

\* a sweep pass ran after the caller's Add, at a tick where the entry's age
\* was at most the interval, and the caller's Get still finds its entry
C5_Witness ==
    \E c \in Callers :
        /\ Returning(c) /\ mine[c].st = "own" /\ ret[c][2]
        /\ spc = "wait" /\ nextTick - interval > mine[c].at
        /\ now <= mine[c].at + interval

C7_Step ==
    \A k \in DOMAIN cache' :
        \/ k \in DOMAIN cache /\ cache'[k].val = cache[k].val
        \/ \E c \in Callers : AddWrite(c) /\ key[c] = k /\ value[c] = cache'[k].val

\* a Get that has read returns not found or the value stored under its key
C7_GetSeesAdded ==
    \A c \in Callers :
        Returning(c) =>
            \/ ret[c] = <<Nil, FALSE>>
            \/ key[c] \in DOMAIN cache /\ ret[c] = <<cache[key[c]].val, TRUE>>

\* C7: under every interleaving of the callers and the sweeper, the value
\* stored under a key changes only in the write of an Add of that key, to the
\* value of that Add, and a Get that has read returns not found or the value
\* stored under its own key: every value a Get(k) returns was stored by an
\* Add(k, _).
C7_NoForeignValue == []C7_GetSeesAdded /\ [][C7_Step]_vars

\* a Get has returned a value of its key while an Add of another value for the
\* same key waits for the readers to leave
C7_Witness ==
    \E c, d \in Callers :
        /\ Returning(c) /\ ret[c][2]
        /\ pc[d] = "add_enter" /\ key[d] = key[c] /\ value[d] # ret[c][1]

\* ---- C8 ----
\* at most one writer inside, no reader with it, and the lock records who
C8_Exclusion ==
    /\ Cardinality(Writing) <= 1
    /\ Writing # {} => Reading = {}
    /\ mu.readers = Reading
    /\ mu.w = Writing \cup Announced
    /\ mu.held = (Writing # {})

\* the map changes only under the write lock
C8_Step == cache' # cache => (mu.held /\ mu.w = Writing /\ mu.readers = {})

\* C8: at most one writer is inside, no reader is inside with a writer, and the
\* lock records exactly who is inside; the map changes only in a step of the
\* holder of the write lock.
C8_MutualExclusion == []C8_Exclusion /\ [][C8_Step]_vars

\* a writer is inside while a reader and the sweeper wait for the lock
C8_Witness ==
    \E c, d \in Callers :
        pc[c] = "add_write" /\ pc[d] = "get_rlock" /\ spc = "lock"

\* ---- C9 ----
\* C9 as stated: a Get(k) of the caller whose previous call was Add(k, v)
\* returns found = true, and v unless another caller's Add(k, _) intervened.
C9_Original ==
    \A c \in Callers :
        (Returning(c) /\ mine[c].st # "none") =>
            /\ ret[c][2]
            /\ mine[c].st = "own" => ret[c][1] = mine[c].v

\* C9 amended: the same, unless the sweep has removed the entry of k after
\* the latest Add of k.
C9_ReadYourWrite ==
    \A c \in Callers :
        (Returning(c) /\ mine[c].st \in {"own", "other"}) =>
            /\ mine[c].k = key[c]
            /\ ret[c][2]
            /\ mine[c].st = "own" => ret[c][1] = mine[c].v

\* the caller reads its own value back although other callers ran and a sweep
\* pass ran between its Add and its Get
C9_Witness ==
    \E c \in Callers :
        /\ Returning(c) /\ mine[c].st = "own" /\ ret[c] = <<mine[c].v, TRUE>>
        /\ just = <<>> /\ spc = "wait" /\ nextTick - interval > mine[c].at

\* ---- C10 ----
\* the steps of Add, Get and the sweep pass, as opposed to the callers' choice
\* to call and the passing of time
Progress ==
    \/ \E c \in Callers :
          \/ AddLock(c) \/ AddEnter(c) \/ AddWrite(c)
          \/ AddUnlock(c) \/ AddUnlockThenGet(c)
          \/ GetRLock(c) \/ GetRead(c) \/ GetRUnlock(c)
    \/ ReapLock \/ ReapEnter \/ ReapUnlock
    \/ \E k \in Keys : ReapVisit(k)

\* caller c is inside a call of Add or Get
InCall(c) == pc[c] # "idle"

\* somebody is blocked in Lock or RLock
Waiting ==
    \/ \E c \in Callers : pc[c] \in {"add_lock", "add_enter", "get_rlock"}
    \/ spc \in {"lock", "enter"}

\* nobody is between its Lock or RLock and its unlock
Quiescent ==
    /\ \A c \in Callers : pc[c] \in {"idle", "add_lock", "get_rlock"}
    /\ spc \in {"start", "wait", "lock"}

\* scheduling: a goroutine that can take its next step takes it, and a
\* goroutine blocked in Lock or RLock is not passed over forever
Fairness ==
    /\ \A c \in Callers :
          /\ SF_vars(UNCHANGED fetch /\ AddLock(c))
          /\ SF_vars(UNCHANGED fetch /\ GetRLock(c))
          /\ WF_vars(UNCHANGED fetch /\ AddEnter(c))
          /\ WF_vars(UNCHANGED fetch /\ AddWrite(c))
          /\ WF_vars(UNCHANGED fetch /\ (AddUnlock(c) \/ AddUnlockThenGet(c)))
          /\ WF_vars(UNCHANGED fetch /\ GetRead(c))
          /\ WF_vars(UNCHANGED fetch /\ GetRUnlock(c))
    /\ SF_vars(UNCHANGED fetch /\ ReapLock)
    /\ WF_vars(UNCHANGED fetch /\
                 (NewTicker \/ ReapTick \/ ReapEnter \/ ReapUnlock \/ \E k \in Keys : ReapVisit(k)))

\* the lock does not depend on the key or the value of a call: under the
\* fairness conditions every caller adds and gets one key and one value
FairNext ==
    \/ UNCHANGED fetch /\ \E c \in Callers : CallAdd(c, NKeys, NValues)
    \/ UNCHANGED fetch /\ \E c \in Callers : AddLock(c)
    \/ UNCHANGED fetch /\ \E c \in Callers : AddEnter(c)
    \/ UNCHANGED fetch /\ \E c \in Callers : AddWrite(c)
    \/ UNCHANGED fetch /\ \E c \in Callers : AddUnlock(c)
    \/ UNCHANGED fetch /\ \E c \in Callers : AddUnlockThenGet(c)
    \/ UNCHANGED fetch /\ \E c \in Callers : CallGet(c, NKeys)
    \/ UNCHANGED fetch /\ \E c \in Callers : GetRLock(c)
    \/ UNCHANGED fetch /\ \E c \in Callers : GetRead(c)
    \/ UNCHANGED fetch /\ \E c \in Callers : GetRUnlock(c)
    \/ UNCHANGED fetch /\ NewTicker
    \/ UNCHANGED fetch /\ ReapTick
    \/ UNCHANGED fetch /\ ReapLock
    \/ UNCHANGED fetch /\ ReapEnter
    \/ UNCHANGED fetch /\ \E k \in Keys : ReapVisit(k)
    \/ UNCHANGED fetch /\ ReapUnlock
    \/ UNCHANGED fetch /\ TimePasses

FairSpec == Init /\ [][FairNext]_vars /\ Fairness

\* the lock is free when nobody is inside
C10_LockFree == Quiescent => mu = MutexFree

\* a blocked goroutine is never blocked for good
C10_NoDeadlock == Waiting => ENABLED Progress

\* C10: when no Add, Get or sweep pass is between its Lock/RLock and its
\* unlock, the lock is free; whenever somebody waits for the lock some step of
\* Add, Get or the sweep can be taken; and under fair scheduling every call of
\* Add or Get returns.
C10_Released ==
    /\ [](C10_LockFree /\ C10_NoDeadlock)
    /\ \A c \in Callers : InCall(c) ~> ~InCall(c)

\* both callers and the sweeper contend: one caller has written and still
\* holds the lock while the other caller and the sweeper wait for it
C10_Witness ==
    \E c, d \in Callers :
        pc[c] = "add_unlock" /\ pc[d] = "add_lock" /\ spc = "lock" /\ mu.held

\* ---- C11 ----
\* C11: the result of Get is a pair of a value and a flag, with no error: it is
\* (stored value, true) exactly when the key is in the map while the Get holds
\* the read lock, however old the entry is, and (nil, false) exactly when the
\* key is not in the map.
C11_PresenceOnly ==
    \A c \in Callers :
        Returning(c) =>
            /\ c \in mu.readers
            /\ ret[c] \in (Values \cup {Nil}) \X BOOLEAN
            /\ ret[c][2] <=> key[c] \in DOMAIN cache
            /\ ret[c][2] => ret[c][1] = cache[key[c]].val
            /\ ~ret[c][2] => ret[c][1] = Nil

\* a Get has returned an entry that is older than the interval and not yet swept
C11_Witness ==
    \E c \in Callers :
        /\ Returning(c)
        /\ ret[c][2]
        /\ key[c] \in DOMAIN cache
        /\ now - cache[key[c]].createdAt > interval

\* ---- C12 ----
\* C12: a step of a Get leaves the map unchanged; a key leaves the map only in
\* an iteration of the sweep that visits it; an entry is created or changed
\* only by the write of an Add of that key, which stores the caller's value
\* with the current time.
C12_OnlyAddAndSweep ==
    [][ /\ \A c \in Callers :
              (pc[c] \in {"idle", "get_rlock", "get_read", "get_runlock"}
                 /\ pc'[c] \in {"get_rlock", "get_read", "get_runlock", "idle"}
                 /\ pc'[c] # pc[c])
                  => cache' = cache
        /\ \A k \in DOMAIN cache \ DOMAIN cache' :
              /\ spc = "scan"
              /\ mu.w = {Sweeper} /\ mu.held
              /\ k \in todo /\ k \notin todo'
              /\ pc' = pc
        /\ \A k \in DOMAIN cache' :
              (k \notin DOMAIN cache \/ cache'[k] # cache[k])
                  => \E c \in Callers :
                        /\ pc[c] = "add_write" /\ pc'[c] = "add_unlock"
                        /\ key[c] = k
                        /\ cache'[k] = cacheEntry(now, value[c])
      ]_vars

\* a Get has read the map after one key was added and swept and while another
\* key is stored
C12_Witness ==
    /\ added \ DOMAIN cache # {}
    /\ DOMAIN cache # {}
    /\ \E c \in Callers : Returning(c)

\* ---- C13 ----
\* the clock does not stop while the ticker has a tick to come
ClockFairness == WF_vars(UNCHANGED fetch /\ TimePasses)

\* fair scheduling with a clock that keeps running up to MaxTime
TickSpec == Init /\ [][FairNext]_vars /\ Fairness /\ ClockFairness

\* the positions of the for range ticker.C loop, which has no exit
SweeperAlive == spc \in {"start", "wait", "lock", "enter", "scan"}

\* C13: the sweeper goroutine is started once and is never past the end of
\* reapLoop, and every tick of the ticker that falls due is received and
\* followed by a later one, up to the end of the time the clock covers.
C13_SweeperForever ==
    /\ []SweeperAlive
    /\ [][spc' = "start" => spc = "start"]_vars
    /\ \A t \in 0..MaxTime : (spc # "start" /\ nextTick = t) ~> (nextTick > t)
    /\ <>(nextTick > MaxTime)

\* the sweeper has received every tick up to MaxTime and waits for the next one
C13_Witness ==
    /\ spc = "wait"
    /\ now = MaxTime
    /\ nextTick > MaxTime
    /\ nextTick >= 3 * interval

\* ---- C14 ----
\* C14: under fair scheduling an Add that waits in Lock reaches its write and
\* a sweep that waits in Lock reaches its scan, while the other callers go on
\* calling Get.
C14_WritersNotStarved ==
    /\ \A c \in Callers : (pc[c] \in {"add_lock", "add_enter"}) ~> (pc[c] = "add_write")
    /\ (spc \in {"lock", "enter"}) ~> (spc = "scan")

\* the sweep waits in Lock for a Get that is inside while a later Get waits in RLock
C14_Witness ==
    /\ spc = "enter"
    /\ mu.readers # {}
    /\ \E c \in Callers : pc[c] = "get_rlock"

\* ---- fetchData over the cache ----
\* the variables of the cache, which a step of fetchData outside Add and Get leaves alone
cacheVars == <<cache, mu, now, interval, pc, key, value, ret, spc, nextTick, todo,
               added, just, mine, pre>>

\* if strings.TrimSpace(url) == "" { return []byte{}, errors.New("Invalid input") }
FetchBlank(c) ==
    /\ fetch[c].pc = "idle"
    /\ pc[c] = "idle"
    /\ fetch' = [fetch EXCEPT ![c] = [FetchIdle EXCEPT !.pc = "done", !.err = "invalid"]]
    /\ UNCHANGED cacheVars

\* fetchData(url, c) with a url that is not blank: c.Cache.Get(url) is called
FetchCall(c, u) ==
    /\ fetch[c].pc = "idle"
    /\ u # Blank
    /\ CallGet(c, u)
    /\ fetch' = [fetch EXCEPT ![c] = [FetchIdle EXCEPT !.pc = "get", !.url = u]]

\* a fetchData that goes on to http.Get whatever the cache returned
FetchGetReturnNoCache(c) ==
    /\ fetch[c].pc = "get"
    /\ pc[c] = "get_runlock"
    /\ GetRUnlock(c)
    /\ fetch' = [fetch EXCEPT ![c] =
                   [@ EXCEPT !.pc = "http", !.data = ret[c][1], !.ok = ret[c][2],
                             !.kept = IF fetch[c].firstErr = "none" THEN "none"
                                      ELSE mine[c].st]]

\* decodedData, ok := c.Cache.Get(url); if ok { return decodedData, nil }
FetchGetReturn(c) ==
    /\ fetch[c].pc = "get"
    /\ pc[c] = "get_runlock"
    /\ GetRUnlock(c)
    /\ fetch' = [fetch EXCEPT ![c] =
                   [@ EXCEPT !.pc = IF ret[c][2] THEN "done" ELSE "http",
                             !.data = ret[c][1], !.ok = ret[c][2],
                             !.kept = IF fetch[c].firstErr = "none" THEN "none"
                                      ELSE mine[c].st]]

\* the errors of http.Get and of a status other than 200
HttpErrors == {"transport", "status"}

\* res, err := http.Get(url) fails, or res.StatusCode != http.StatusOK
FetchHttpFail(c, e) ==
    /\ fetch[c].pc = "http"
    /\ e \in HttpErrors
    /\ fetch' = [fetch EXCEPT ![c] =
                   [@ EXCEPT !.pc = "done", !.data = Nil, !.err = e, !.reqs = @ + 1]]
    /\ UNCHANGED cacheVars

\* the outcomes of io.ReadAll
ReadErrors == {"nil", "read"}

\* decodedData, err = io.ReadAll(res.Body); c.Cache.Add(url, decodedData) is called
FetchHttpOk(c, b, e) ==
    /\ fetch[c].pc = "http"
    /\ e \in ReadErrors
    /\ CallAdd(c, fetch[c].url, b)
    /\ fetch' = [fetch EXCEPT ![c] =
                   [@ EXCEPT !.pc = "add", !.data = b, !.err = e, !.reqs = @ + 1]]

\* Add returns; if err != nil { return []byte{}, err }; return decodedData, nil
FetchAddReturn(c) ==
    /\ fetch[c].pc = "add"
    /\ AddUnlock(c)
    /\ fetch' = [fetch EXCEPT ![c] =
                   [@ EXCEPT !.pc = "done",
                             !.data = IF fetch[c].err = "nil" THEN @ ELSE Nil]]

\* Add returns, fetchData returns, and the caller's next call is fetchData of the same url
FetchAddReturnThenRefetch(c) ==
    /\ fetch[c].pc = "add"
    /\ AddUnlockThenGet(c)
    /\ fetch' = [fetch EXCEPT ![c] =
                   [FetchIdle EXCEPT !.pc = "get", !.url = fetch[c].url,
                                     !.first = fetch[c].data, !.firstErr = fetch[c].err]]

\* the caller has taken the result of fetchData
FetchReturn(c) ==
    /\ fetch[c].pc = "done"
    /\ fetch' = [fetch EXCEPT ![c] = FetchIdle]
    /\ UNCHANGED cacheVars

\* every step when the callers use the cache through fetchData; fetchData
\* touches the cache under its url only, and every caller fetches the same url
FetchNext ==
    \/ \E c \in Callers : FetchBlank(c)
    \/ \E c \in Callers : FetchCall(c, NKeys)
    \/ UNCHANGED fetch /\ \E c \in Callers : GetRLock(c)
    \/ UNCHANGED fetch /\ \E c \in Callers : GetRead(c)
    \/ \E c \in Callers : FetchGetReturn(c)
    \/ \E c \in Callers, e \in HttpErrors : FetchHttpFail(c, e)
    \/ \E c \in Callers, b \in Values, e \in ReadErrors : FetchHttpOk(c, b, e)
    \/ UNCHANGED fetch /\ \E c \in Callers : AddLock(c)
    \/ UNCHANGED fetch /\ \E c \in Callers : AddEnter(c)
    \/ UNCHANGED fetch /\ \E c \in Callers : AddWrite(c)
    \/ \E c \in Callers : FetchAddReturn(c)
    \/ \E c \in Callers : FetchAddReturnThenRefetch(c)
    \/ \E c \in Callers : FetchReturn(c)
    \/ UNCHANGED fetch /\ NewTicker
    \/ UNCHANGED fetch /\ ReapTick
    \/ UNCHANGED fetch /\ ReapLock
    \/ UNCHANGED fetch /\ ReapEnter
    \/ UNCHANGED fetch /\ \E k \in Keys : ReapVisit(k)
    \/ UNCHANGED fetch /\ ReapUnlock
    \/ UNCHANGED fetch /\ TimePasses

FetchSpec == Init /\ [][FetchNext]_vars

\* the types of the locals of fetchData
FetchTypeOK ==
    \A c \in Callers :
        /\ fetch[c].pc \in {"idle", "get", "http", "add", "done"}
        /\ fetch[c].url \in Urls
        /\ fetch[c].data \in Values \cup {Nil}
        /\ fetch[c].ok \in BOOLEAN
        /\ fetch[c].err \in {"nil", "invalid"} \cup HttpErrors \cup ReadErrors
        /\ fetch[c].reqs \in 0..1

\* ---- C15 ----
\* C15: fetchData of a url that is not blank calls Get(url) before any
\* request; it makes a request only after a miss and at most one; a hit
\* returns the cached bytes with no request and no error; after a miss the
\* body read is passed to Add under exactly that url and is in the map when
\* Add has written; and a second fetchData of the same url finds the entry
\* while its age is at most the interval, makes no request when it finds it,
\* and returns the bytes of the first when no other Add has replaced them.
C15_GetOrFetch ==
    \A c \in Callers :
        LET f == fetch[c] IN
        /\ f.reqs \in 0..1
        /\ f.pc = "get" =>
              /\ f.reqs = 0
              /\ f.url # Blank
              /\ pc[c] \in {"get_rlock", "get_read", "get_runlock"}
              /\ key[c] = f.url
        /\ f.pc = "http" => ~f.ok /\ f.reqs = 0
        /\ f.reqs = 1 => ~f.ok
        /\ (f.pc = "done" /\ f.ok) => f.reqs = 0 /\ f.err = "nil" /\ f.data \in Values
        /\ f.pc = "add" =>
              /\ f.reqs = 1
              /\ pc[c] \in {"add_lock", "add_enter", "add_write", "add_unlock"}
              /\ key[c] = f.url
              /\ value[c] = f.data
        /\ (f.pc = "add" /\ pc[c] = "add_unlock") =>
              f.url \in DOMAIN cache /\ cache[f.url].val = f.data
        /\ (f.pc = "get" /\ f.firstErr # "none" /\ Returning(c)
              /\ now - mine[c].at <= interval) => ret[c][2]
        /\ (f.pc = "done" /\ f.kept \in {"own", "other"}) => f.ok /\ f.reqs = 0
        /\ (f.pc = "done" /\ f.kept = "own") => f.err = "nil" /\ f.data = f.first

\* a second fetchData of the url has returned the bytes that the caller's
\* first fetchData read and stored, without a request
C15_Witness ==
    \E c \in Callers :
        /\ fetch[c].pc = "done"
        /\ fetch[c].firstErr = "nil"
        /\ fetch[c].kept = "own"
        /\ fetch[c].ok
        /\ fetch[c].reqs = 0
        /\ fetch[c].data = fetch[c].first
        /\ fetch[c].data \in Values

\* ---- C16 ----
\* C16: the cache NewCache returns for a positive interval is empty: until
\* the first Add writes, the map has no key and every Get returns (nil,
\* false); and its sweeper runs with that interval: the first tick is due one
\* interval after NewCache, every tick is due at a multiple of the interval,
\* and the next tick is never more than one interval away.
C16_EmptyAndSwept ==
    /\ interval > 0
    /\ added = {} =>
          /\ cache = EmptyMap
          /\ \A c \in Callers : Returning(c) => ret[c] = <<Nil, FALSE>>
    /\ spc # "start" =>
          /\ nextTick >= interval
          /\ nextTick % interval = 0
          /\ nextTick - now <= interval

\* a Get has found the new cache empty after the sweeper has received a tick
C16_Witness ==
    /\ added = {}
    /\ spc = "wait"
    /\ nextTick = 2 * interval
    /\ \E c \in Callers : Returning(c) /\ ~ret[c][2]

\* ---- NewCache with any interval ----
\* the intervals NewCache accepts: it has no check and no error result
CtorIntervals == (0 - 1)..MaxInterval

\* the state NewCache(interval) returns to its caller, for any interval
CtorInit ==
    /\ cache = EmptyMap
    /\ mu = MutexFree
    /\ now = 0
    /\ interval \in CtorIntervals
    /\ pc = [c \in Callers |-> "idle"]
    /\ key = [c \in Callers |-> 0]
    /\ value = [c \in Callers |-> Nil]
    /\ ret = [c \in Callers |-> <<Nil, FALSE>>]
    /\ spc = "start"
    /\ nextTick = 0
    /\ todo = {}
    /\ added = {}
    /\ just = <<>>
    /\ mine = [c \in Callers |-> NoMine]
    /\ pre = EmptyMap
    /\ fetch = [c \in Callers |-> FetchIdle]

\* time.NewTicker(interval) panics for a non-positive interval; the panic is
\* in the goroutine of reapLoop and ends the process
NewTickerPanic ==
    /\ spc = "start"
    /\ interval <= 0
    /\ spc' = "panic"
    /\ just' = <<>>
    /\ UNCHANGED <<cache, mu, now, interval, pc, key, value, ret, nextTick, todo, added,
                   mine, pre>>

\* the process has not been ended by a panic
Running == spc # "panic"

\* every step of the callers, the sweeper and the clock after NewCache of any interval
CtorNext ==
    \/ UNCHANGED fetch /\ NewTickerPanic
    \/ Running /\ UNCHANGED fetch /\ \E c \in Callers, k \in Keys, v \in Values : CallAdd(c, k, v)
    \/ Running /\ UNCHANGED fetch /\ \E c \in Callers : AddLock(c)
    \/ Running /\ UNCHANGED fetch /\ \E c \in Callers : AddEnter(c)
    \/ Running /\ UNCHANGED fetch /\ \E c \in Callers : AddWrite(c)
    \/ Running /\ UNCHANGED fetch /\ \E c \in Callers : AddUnlock(c)
    \/ Running /\ UNCHANGED fetch /\ \E c \in Callers : AddUnlockThenGet(c)
    \/ Running /\ UNCHANGED fetch /\ \E c \in Callers, k \in Keys : CallGet(c, k)
    \/ Running /\ UNCHANGED fetch /\ \E c \in Callers : GetRLock(c)
    \/ Running /\ UNCHANGED fetch /\ \E c \in Callers : GetRead(c)
    \/ Running /\ UNCHANGED fetch /\ \E c \in Callers : GetRUnlock(c)
    \/ Running /\ UNCHANGED fetch /\ NewTicker
    \/ Running /\ UNCHANGED fetch /\ ReapTick
    \/ Running /\ UNCHANGED fetch /\ ReapLock
    \/ Running /\ UNCHANGED fetch /\ ReapEnter
    \/ Running /\ UNCHANGED fetch /\ \E k \in Keys : ReapVisit(k)
    \/ Running /\ UNCHANGED fetch /\ ReapUnlock
    \/ Running /\ UNCHANGED fetch /\ TimePasses

CtorSpec == CtorInit /\ [][CtorNext]_vars

\* ---- C17 ----
\* C17: no caller ever uses a cache whose interval is not positive, and the
\* sweeper of a cache never fails on its interval after construction.
C17_Original ==
    /\ (\E c \in Callers : pc[c] # "idle") => interval > 0
    /\ spc # "panic"

\* ---- C18 ----
\* C18: during the whole scan of a sweep pass the sweeper holds the exclusive
\* lock and no Add or Get is between its lock and its unlock, so no caller
\* sees the map while the pass runs; the keys the pass has visited and found
\* older than the interval are gone, every other entry is as the pass found
\* it; and when the scan ends the map is the map the pass found, restricted
\* to the entries of age at most the interval.
C18_AtomicSweep ==
    spc = "scan" =>
        /\ mu.w = {Sweeper} /\ mu.held /\ mu.readers = {}
        /\ \A c \in Callers :
              pc[c] \notin {"add_write", "add_unlock", "get_read", "get_runlock"}
        /\ todo \subseteq DOMAIN pre
        /\ cache = [k \in {x \in DOMAIN pre :
                             x \in todo \/ now - pre[x].createdAt <= interval} |-> pre[k]]

\* a pass has ended its scan having removed one entry and kept another, while
\* a Get waits for the lock
C18_Witness ==
    /\ spc = "scan"
    /\ todo = {}
    /\ DOMAIN cache # {}
    /\ DOMAIN pre \ DOMAIN cache # {}
    /\ \E c \in Callers : pc[c] = "get_rlock"

\* ---- C19 ----
\* C19: the clock never goes back and no entry is dated after the clock; an
\* entry stored or replaced by a step carries the current time, which is not
\* earlier than the createdAt the key had before the step; and the entry a
\* key has now is not dated before any entry a caller stored under that key
\* earlier, also when a sweep removed that entry and a later Add stored the
\* key again.
C19_CreatedAtMonotone ==
    /\ [](\A k \in DOMAIN cache : cache[k].createdAt <= now)
    /\ [](\A c \in Callers :
             (mine[c].st # "none" /\ mine[c].k \in DOMAIN cache)
                 => cache[mine[c].k].createdAt >= mine[c].at)
    /\ [][ /\ now' >= now
           /\ \A k \in DOMAIN cache' :
                 \/ k \in DOMAIN cache /\ cache'[k] = cache[k]
                 \/ /\ cache'[k].createdAt = now'
                    /\ k \in DOMAIN cache => cache'[k].createdAt >= cache[k].createdAt
         ]_vars

\* a key is stored again, with a later createdAt, after a sweep removed the
\* entry a caller had stored under it
C19_Witness ==
    \E c \in Callers :
        /\ mine[c].st = "other"
        /\ mine[c].gone
        /\ mine[c].k \in DOMAIN cache
        /\ cache[mine[c].k].createdAt > mine[c].at

\* ---- C20 ----
\* the statement without the writer that waits in Lock: a Get that waits in
\* RLock can take the read lock whenever no writer is between Lock and
\* Unlock, also while a writer waits inside Lock for the Gets that hold the
\* read lock
C20_Original ==
    \A c \in Callers :
        (pc[c] = "get_rlock" /\ Writing = {} /\ (Announced = {} \/ mu.readers # {}))
            => ENABLED (UNCHANGED fetch /\ GetRLock(c))

\* C20: a Get that waits in RLock can take the read lock whenever no writer
\* is between Lock and Unlock and no writer waits inside Lock, however many
\* Gets hold the read lock; and a Get that holds the read lock can always
\* read and return.
C20_ReadersShare ==
    \A c \in Callers :
        /\ (pc[c] = "get_rlock" /\ Writing = {} /\ Announced = {})
              => ENABLED (UNCHANGED fetch /\ GetRLock(c))
        /\ pc[c] = "get_read" => ENABLED (UNCHANGED fetch /\ GetRead(c))
        /\ pc[c] = "get_runlock" => ENABLED (UNCHANGED fetch /\ GetRUnlock(c))

\* two Gets are inside the read section together
C20_Witness ==
    /\ Cardinality(Reading) >= 2
    /\ Cardinality(mu.readers) >= 2

\* ---- C21 ----
\* C21: a fetchData that returns an error stores nothing: the bytes passed to
\* Add are those of a body that was read without an error, and a later
\* fetchData of the url is never served, as a hit, the bytes that a failed
\* fetchData read.
C21_Original ==
    \A c \in Callers :
        LET f == fetch[c] IN
        /\ f.pc = "add" => f.err = "nil"
        /\ ~(f.pc = "done" /\ f.firstErr = "read" /\ f.kept = "own"
               /\ f.ok /\ f.data = f.first)

\* a fetchData has returned, as a hit and without an error, the bytes that the
\* caller's previous fetchData stored although io.ReadAll had failed
C21_Witness ==
    \E c \in Callers :
        /\ fetch[c].pc = "done"
        /\ fetch[c].firstErr = "read"
        /\ fetch[c].kept = "own"
        /\ fetch[c].ok
        /\ fetch[c].err = "nil"
        /\ fetch[c].reqs = 0
        /\ fetch[c].data = fetch[c].first
        /\ fetch[c].data \in Values

\* ---- C22 ----
\* C22: the entry of a key carries the time and the value of the most recent
\* Add of the key: while a caller's Add is the latest of its key and no sweep
\* has removed the entry, the entry is that value with that time and a Get of
\* the key returns that value; a sweep removes the entry only when more than
\* the interval has passed since that Add, so the entry is in the map at
\* every time up to that Add's time plus the interval, whenever the key was
\* first added.
C22_ExpiryFromLastAdd ==
    \A c \in Callers :
        /\ mine[c].st = "own" =>
              /\ mine[c].k \in DOMAIN cache
              /\ cache[mine[c].k] = cacheEntry(mine[c].at, mine[c].v)
        /\ mine[c].st = "swept" => now > mine[c].at + interval
        /\ (mine[c].st # "none" /\ now <= mine[c].at + interval) =>
              mine[c].k \in DOMAIN cache
        /\ \A d \in Callers :
              (Returning(d) /\ mine[c].st = "own" /\ key[d] = mine[c].k)
                  => ret[d] = <<mine[c].v, TRUE>>

\* a sweep pass has visited and kept a key whose latest Add is within the
\* interval, while an earlier Add of the key by another caller is older than
\* the interval
C22_Witness ==
    \E c, d \in Callers :
        /\ c # d
        /\ mine[c].st = "own"
        /\ mine[d].st = "other"
        /\ mine[d].k = mine[c].k
        /\ now - mine[d].at > interval
        /\ now - mine[c].at <= interval
        /\ spc = "scan"
        /\ mine[c].k \in DOMAIN pre
        /\ mine[c].k \notin todo
        /\ mine[c].k \in DOMAIN cache
        /\ cache[mine[c].k].val = mine[c].v

\* ---- C23 ----
\* C23: the write of Add(k, v) leaves every other key as it was: the same
\* membership, the same value and the same createdAt; the number of entries
\* grows by at most one and never shrinks; and the other steps of an Add (the
\* call, Lock and the deferred Unlock) do not change the map at all.
C23_AddFrame ==
    [][ \A c \in Callers :
          /\ (pc[c] = "add_write" /\ pc'[c] = "add_unlock") =>
                /\ \A x \in Keys \ {key[c]} :
                      /\ x \in DOMAIN cache' <=> x \in DOMAIN cache
                      /\ x \in DOMAIN cache => cache'[x] = cache[x]
                /\ key[c] \in DOMAIN cache'
                /\ Cardinality(DOMAIN cache') >= Cardinality(DOMAIN cache)
                /\ Cardinality(DOMAIN cache') <= Cardinality(DOMAIN cache) + 1
          /\ (pc'[c] # pc[c] /\ pc'[c] \in {"add_lock", "add_enter", "add_write"})
                => cache' = cache
          /\ (pc[c] = "add_unlock" /\ pc'[c] # pc[c]) => cache' = cache
      ]_vars

\* an Add has written a new key beside an older entry of another key
C23_Witness ==
    \E c \in Callers :
        /\ pc[c] = "add_unlock"
        /\ just # <<>> /\ just[1] = c
        /\ Cardinality(DOMAIN cache) = 2
        /\ cache[key[c]].createdAt = now
        /\ \E x \in DOMAIN cache \ {key[c]} : cache[x].createdAt < now

====
